---- MODULE Spec2Model ----
(***************************************************************************)
(* Model of src/main.py: the /convert/ endpoint (convert_files), its       *)
(* background worker (process_pdf_from_paths), the pre-flight display-name *)
(* check (file_exists_in_api, shorten_filename) and the recitation retry   *)
(* policy (generate_with_retry); the token issuer POST /token              *)
(* (get_access_token, create_access_token), the verifier                   *)
(* get_current_api_key and a protected endpoint (list_files).  The         *)
(* credential that genai.configure sets is process-wide: genai_key.        *)
(* Spec is one /convert/ request alone, SpecAuth the issuer, the verifier  *)
(* and the clock, SpecConc a /convert/ request with POST /token calls      *)
(* served while it is suspended.                                           *)
(*                                                                         *)
(* Text is modelled as a sequence of tokens: a file name is a sequence of  *)
(* one-character strings, an error text a sequence of words.  Python's     *)
(* `x in s` on such a text is token membership.  Temperatures are counted  *)
(* in tenths (4 stands for 0.4), time in minutes.                          *)
(***************************************************************************)
EXTENDS Integers, Sequences, FiniteSets, TLC

\* ------------------------------------------------------------------ bounds
\* Largest number of documents in one /convert/ request.
MaxFiles == 2

\* ------------------------------------------------------- program constants
\* A retry loop that runs one attempt too many.
max_retries_one_more == 3 + 1

\* generate_with_retry(model, content, prompt, max_retries=3)
max_retries == 3
\* shorten_filename(original_filename, 40)
MaxDisplayNameLen == 40

\* ----------------------------------------------------------------- helpers
Rep(c, n) == [k \in 1..n |-> c]

Min(a, b) == IF a <= b THEN a ELSE b

Range(s) == {s[k] : k \in 1..Len(s)}

\* The largest index of character c in p, 0 when there is none (str.rfind).
rfind(p, c) ==
    LET hits == {k \in 1..Len(p) : p[k] = c}
    IN  IF hits = {} THEN 0 ELSE CHOOSE k \in hits : \A j \in hits : j <= k

\* os.path.splitext: <<root, ext>>.  The extension starts at the last dot
\* after the last "/", unless only dots precede it in that path component.
splitext(p) ==
    LET sepIndex == rfind(p, "/")
        dotIndex == rfind(p, ".")
    IN  IF /\ dotIndex > sepIndex
           /\ \E k \in (sepIndex + 1)..(dotIndex - 1) : p[k] # "."
        THEN <<SubSeq(p, 1, dotIndex - 1), SubSeq(p, dotIndex, Len(p))>>
        ELSE <<p, <<>> >>

shorten_filename(filename, max_length) ==
    IF Len(filename) <= max_length
    THEN filename
    ELSE LET name == splitext(filename)[1]
             ext == splitext(filename)[2]
             max_name_length == max_length - Len(ext)
         IN  IF max_name_length <= 0
             THEN SubSeq(filename, 1, max_length)
             ELSE SubSeq(name, 1, Min(max_name_length, Len(name))) \o ext

\* html_filename = f"{os.path.splitext(shortened_filename)[0]}.html"
html_filename(shortened_filename) ==
    splitext(shortened_filename)[1] \o <<".", "h", "t", "m", "l">>

\* ------------------------------------------------------------------ inputs
DotPdf == <<".", "p", "d", "f">>

\* The file names a caller may submit: a short one, one of 41 characters
\* that shorten_filename cuts to 40, and one whose extension alone is longer
\* than the limit.
FileNameInputs ==
    { <<"a">> \o DotPdf,
      Rep("b", 36) \o <<"x">> \o DotPdf,
      <<"c", ".">> \o Rep("e", 40) }

\* The display names the external File API may already hold.
ExistingInputs == SUBSET { <<"a">> \o DotPdf, Rep("b", 36) \o DotPdf }

PromptInputs == {"", "custom prompt"}

KeyInputs == {"key1"}

SeqsUpTo(S, n) == UNION {[1..k -> S] : k \in 0..n}

\* Texts of the errors model.generate_content may raise.
GenErrors ==
    { <<"RECITATION">>,
      <<"finish_reason", "4">>,
      <<"finish_reason", "3">>,
      <<"504", "deadline", "4">> }

UploadError == <<"upload", "failed">>

\* -------------------------------------------------------------- exceptions
PlainException(text) ==
    [cls |-> "Exception", status_code |-> 0, detail |-> text]

HTTPException(code, text) ==
    [cls |-> "HTTPException", status_code |-> code, detail |-> text]

NoException == [cls |-> "none", status_code |-> 0, detail |-> <<>>]

\* str(e)
StrOf(e) == e.detail

\* ------------------------------------------------------------------- state
VARIABLES
    pc,               \* position of the request / background task
    files,            \* submitted file names (UploadFile.filename)
    prompt,           \* form field prompt
    background,       \* form field background
    return_html,      \* form field return_html
    api_key,          \* credential the verifier extracted for the request
    genai_key,        \* genai.configure's process-wide api key
    api_files,        \* files held by the external File API
    filenames,        \* convert_files: filenames
    temp_file_paths,  \* convert_files: temp_file_paths
    disk,             \* temporary local files that exist
    i,                \* index of the document in work
    html_results,     \* convert_files: html_results
    file_uris,        \* convert_files: file_uris
    response,         \* what the caller of /convert/ received
    task_scheduled,   \* background_tasks holds process_pdf_from_paths
    logged,           \* errors printed by the background task
    upload_calls,     \* every genai.upload_file call made, in order
    list_calls,       \* number of genai.list_files calls made
    undetected,       \* documents whose listing raised while the API held the name
    generated,        \* documents for which generate_content was called
    gpc,              \* position inside generate_with_retry
    gen_prompt,       \* generate_with_retry: prompt
    gen_calls,        \* generate_content calls of this invocation, in order
    attempt,          \* generate_with_retry: attempt
    error_str,        \* generate_with_retry: error_str
    retry_e,          \* generate_with_retry: retry_e, bound while it is handled
    sleeps,           \* asyncio.sleep(1) calls of this invocation
    gresult,          \* what generate_with_retry returned or raised
    now,              \* datetime.utcnow(), in minutes
    tok,              \* the latest POST /token exchange
    op                \* the latest request to the protected /list_files/

reqVars == <<files, prompt, background, return_html, api_key>>
genVars == <<gpc, gen_prompt, gen_calls, attempt, error_str, retry_e, sleeps,
             gresult, generated>>
vars == <<pc, files, prompt, background, return_html, api_key, genai_key,
          api_files, filenames, temp_file_paths, disk, i, html_results,
          file_uris, response, task_scheduled, logged, upload_calls,
          list_calls, undetected, generated, gpc, gen_prompt, gen_calls,
          attempt, error_str, retry_e, sleeps, gresult, now, tok, op>>
authVars == <<now, tok, op>>

\* Temporary files: the saved PDF bytes and the generated HTML of document k.
PdfTemp(k) == <<"pdf", k>>
HtmlTemp(k) == <<"html", k>>

\* A file of the external File API; uri is the number of the upload call
\* that stored it, 0 for a file that was there before the request.
StoredFile(name, mime, n) ==
    [display_name |-> name, mime_type |-> mime, uri |-> n]

NoResponse ==
    [status_code |-> 0, detail |-> <<>>, message |-> "", filenames |-> <<>>,
     has_html |-> FALSE, html |-> <<>>, has_file_uris |-> FALSE,
     file_uris |-> <<>>]

\* An error answer that also hands out what was collected so far.
ErrorResponse_with_partial_results(e) ==
    [NoResponse EXCEPT !.status_code = e.status_code, !.detail = e.detail,
                       !.has_html = return_html, !.html = html_results,
                       !.has_file_uris = TRUE, !.file_uris = file_uris]

\* raise HTTPException(...): the answer carries the status and the detail.
ErrorResponse(e) ==
    [NoResponse EXCEPT !.status_code = e.status_code, !.detail = e.detail]

\* A model.generate_content call: the document, the instruction and the
\* generation_config's temperature (<<>> when no config is passed).  The
\* response of a call that succeeds is identified by the call.
GenCall(content, instruction, config) ==
    [content |-> content, prompt |-> instruction, generation_config |-> config]

NoCall == GenCall(0, "", <<>>)

NoResult == [kind |-> "none", value |-> NoCall, exc |-> NoException]

Returned(call) == [kind |-> "returned", value |-> call, exc |-> NoException]

Raised(e) == [kind |-> "raised", value |-> NoCall, exc |-> e]

\* ---------------------------------------------------------- authentication
\* Time is counted in minutes, the unit of ACCESS_TOKEN_EXPIRE_MINUTES; the
\* exp claim of a token and the clock it is compared with are whole numbers.
SECRET_KEY == "09d25e094faa6ca2556c818166b7a9563b93f7099f6f0f4caa6cf63b88e8d3e7"
ACCESS_TOKEN_EXPIRE_MINUTES == 30

\* Largest value of the clock.
MaxClock == 32

\* The provider credentials a caller may send to POST /token.
TokenKeyInputs == {"key1", "key2"}

\* The claims of a token: "sub" (has_sub is FALSE when it is absent) and
\* "exp".
Claims(has_sub, sub, exp) == [has_sub |-> has_sub, sub |-> sub, exp |-> exp]

\* The HS256 signature: two signatures are equal only when made with the
\* same secret over the same claims.
Sign(claims, secret) == [secret |-> secret, claims |-> claims]

\* jwt.encode(to_encode, SECRET_KEY, algorithm=ALGORITHM)
jwt_encode(claims, secret) ==
    [wellformed |-> TRUE, claims |-> claims, sig |-> Sign(claims, secret)]

\* A string that is no JWT.
MalformedToken ==
    [wellformed |-> FALSE, claims |-> Claims(FALSE, "", 0),
     sig |-> Sign(Claims(FALSE, "", 0), "")]

\* jwt.decode(token, SECRET_KEY, algorithms=[ALGORITHM]) at time t does
\* not raise JWTError: the token parses, its signature verifies under the
\* secret, and its exp has not passed (jose raises ExpiredSignatureError
\* when exp < now).
jwt_decode_ok(token, secret, t) ==
    /\ token.wellformed
    /\ token.sig = Sign(token.claims, secret)
    /\ ~(token.claims.exp < t)

\* A token whose exp is the time of issue.
create_access_token_no_delta(data, expires_delta, t) ==
    jwt_encode([data EXCEPT !.exp = t], SECRET_KEY)

\* create_access_token(data, expires_delta) called at time t.
create_access_token(data, expires_delta, t) ==
    LET expire == IF expires_delta # 0
                  THEN t + expires_delta
                  ELSE t + ACCESS_TOKEN_EXPIRE_MINUTES
    IN  jwt_encode([data EXCEPT !.exp = expire], SECRET_KEY)

\* credentials_exception of get_current_api_key.
credentials_exception ==
    [status_code |-> 401, detail |-> "Could not validate credentials",
     headers |-> <<"WWW-Authenticate", "Bearer">>]

\* What get_current_api_key does with a token at time t: it returns the
\* subject, or raises credentials_exception.
get_current_api_key(token, t) ==
    IF ~jwt_decode_ok(token, SECRET_KEY, t)
    THEN [ok |-> FALSE, api_key |-> "", exc |-> credentials_exception]
    ELSE IF ~token.claims.has_sub
    THEN [ok |-> FALSE, api_key |-> "", exc |-> credentials_exception]
    ELSE [ok |-> TRUE, api_key |-> token.claims.sub,
          exc |-> [status_code |-> 0, detail |-> "", headers |-> <<>>]]

\* No POST /token exchange yet.
NoTok ==
    [api_key |-> "", at |-> 0, status_code |-> 0, detail |-> "",
     access_token |-> MalformedToken, token_type |-> ""]

\* No request to a protected operation in hand.
NoOp ==
    [token |-> MalformedToken, at |-> 0, status_code |-> 0, detail |-> "",
     headers |-> <<>>, api_key |-> "", calls |-> <<>>]

Init ==
    /\ pc = "idle"
    /\ files = <<>>
    /\ prompt = ""
    /\ background = FALSE
    /\ return_html = TRUE
    /\ api_key = "key1"
    /\ genai_key = "unset"
    /\ \E names \in ExistingInputs :
          api_files = {StoredFile(n, "application/pdf", 0) : n \in names}
    /\ filenames = <<>>
    /\ temp_file_paths = <<>>
    /\ disk = {}
    /\ i = 0
    /\ html_results = <<>>
    /\ file_uris = <<>>
    /\ response = NoResponse
    /\ task_scheduled = FALSE
    /\ logged = <<>>
    /\ upload_calls = <<>>
    /\ list_calls = 0
    /\ undetected = {}
    /\ generated = {}
    /\ gpc = "none"
    /\ gen_prompt = ""
    /\ gen_calls = <<>>
    /\ attempt = 0
    /\ error_str = <<>>
    /\ retry_e = NoException
    /\ sleeps = 0
    /\ gresult = NoResult
    /\ now = 0
    /\ tok = NoTok
    /\ op = NoOp

\* ---------------------------------------------------------- convert_files
\* A request arrives with a verified token; `if not files` is decided.
ConvertBegin ==
    /\ pc = "idle"
    /\ UNCHANGED authVars
    /\ \E fs \in SeqsUpTo(FileNameInputs, MaxFiles), p \in PromptInputs,
          bg \in BOOLEAN, rh \in BOOLEAN, key \in KeyInputs :
          /\ files' = fs
          /\ prompt' = p
          /\ background' = bg
          /\ return_html' = rh
          /\ api_key' = key
          /\ IF fs = <<>>
             THEN /\ response' = ErrorResponse(
                                   HTTPException(400, <<"No files uploaded.">>))
                  /\ pc' = "done"
                  /\ i' = i
             ELSE /\ response' = response
                  /\ pc' = "preflight"
                  /\ i' = 1
    /\ UNCHANGED <<genai_key, api_files, filenames, temp_file_paths, disk,
                   html_results, file_uris, task_scheduled, logged,
                   upload_calls, list_calls, undetected, genVars>>

\* file_exists_in_api: whether the listing, when it succeeds, holds the name;
\* a listing that raises is answered False.
ListedNames == {f.display_name : f \in api_files}

\* A check that never finds the name.
file_exists_in_api_never(display_name, list_ok) == FALSE

file_exists_in_api(display_name, list_ok) ==
    IF list_ok THEN display_name \in ListedNames ELSE FALSE

\* The handler of the pre-flight loop: remove the temporary files saved so
\* far and answer 500 with the text of the exception.
PreflightFailure(name, e) ==
    HTTPException(500, <<"Error processing ">> \o name \o <<": ">> \o StrOf(e))

DuplicateName(shortened_filename) ==
    HTTPException(400, <<"A file with name '">> \o shortened_filename
                       \o <<"' already exists in the File API.">>)

\* One iteration of `for file in files` (lines 289-316).
Preflight ==
    /\ pc = "preflight"
    /\ UNCHANGED authVars
    /\ \E list_ok \in BOOLEAN :
          LET original_filename == files[i]
              shortened_filename ==
                  shorten_filename(original_filename, MaxDisplayNameLen)
          IN  /\ filenames' = Append(filenames, shortened_filename)
              /\ genai_key' = api_key
              /\ list_calls' = list_calls + 1
              /\ undetected' = IF ~list_ok /\ shortened_filename \in ListedNames
                                THEN undetected \cup {i}
                                ELSE undetected
              /\ IF file_exists_in_api(shortened_filename, list_ok)
                 THEN /\ disk' = disk \ Range(temp_file_paths)
                      /\ response' = ErrorResponse(
                             PreflightFailure(original_filename,
                                              DuplicateName(shortened_filename)))
                      /\ pc' = "done"
                      /\ UNCHANGED <<temp_file_paths, i>>
                 ELSE /\ disk' = disk \cup {PdfTemp(i)}
                      /\ temp_file_paths' = Append(temp_file_paths, PdfTemp(i))
                      /\ response' = response
                      /\ IF i = Len(files)
                         THEN /\ pc' = "dispatch"
                              /\ i' = i
                         ELSE /\ pc' = "preflight"
                              /\ i' = i + 1
    /\ UNCHANGED <<reqVars, api_files, html_results, file_uris,
                   task_scheduled, logged, upload_calls, genVars>>

BackgroundAck ==
    [NoResponse EXCEPT !.status_code = 200,
                       !.message = "Files submitted for background processing.",
                       !.filenames = filenames]

\* `if background:` (lines 319-343): schedule the task and answer, or
\* configure the client and enter the synchronous loop.
Dispatch ==
    /\ pc = "dispatch"
    /\ UNCHANGED authVars
    /\ IF background
       THEN /\ task_scheduled' = TRUE
            /\ response' = BackgroundAck
            /\ pc' = "bg_scheduled"
            /\ UNCHANGED <<genai_key, i>>
       ELSE /\ genai_key' = api_key
            /\ pc' = "sync_upload"
            /\ i' = 1
            /\ UNCHANGED <<task_scheduled, response>>
    /\ UNCHANGED <<reqVars, api_files, filenames, temp_file_paths, disk,
                   html_results, file_uris, logged, upload_calls, list_calls,
                   undetected,
                   genVars>>

\* ---------------------------------------------------- generate_with_retry
\* The test with `or` in the place of `and`.
IsRecitation_any_word(text) ==
    \/ "RECITATION" \in Range(text)
    \/ "finish_reason" \in Range(text)
    \/ "4" \in Range(text)

\* "RECITATION" in error_str or
\* ("finish_reason" in error_str and "4" in error_str)
IsRecitation(text) ==
    \/ "RECITATION" \in Range(text)
    \/ ("finish_reason" \in Range(text) /\ "4" \in Range(text))

\* The temperature computed from a 1-based attempt number.
Temperature_one_based(k) == 4 + ((k + 1) * 2)

\* temperature = 0.4 + (attempt * 0.2), in tenths
Temperature(k) == 4 + (k * 2)

\* The alternative prompt of attempt k (0-based, as in the code).
alternative_prompt(k) ==
    IF k = 0 THEN "ALT1: reformat and restructure, omit images"
    ELSE IF k = 1 THEN "ALT2: extract and summarize, no exact text"
    ELSE "ALT3: rephrase and restructure, avoid direct reproduction"

DefaultPrompt == "DEFAULT: convert this PDF document to well-formatted HTML"

\* effective_prompt = prompt if prompt else "Convert this PDF ..."
effective_prompt(p) == IF p # "" THEN p ELSE DefaultPrompt

ContentFlagged(text) ==
    HTTPException(422, <<"Content flagged as potentially copyrighted.",
                         "Original error: ">> \o text)

\* The call generate_with_retry(model, sample_file, effective_prompt).
EnterGenerate(p) ==
    /\ gpc' = "Initial"
    /\ gen_prompt' = p
    /\ gen_calls' = <<>>
    /\ attempt' = 0
    /\ error_str' = <<>>
    /\ retry_e' = NoException
    /\ sleeps' = 0
    /\ gresult' = NoResult
    /\ generated' = generated

\* generate_with_retry is over and its caller goes on: the invocation's
\* state is gone.
ExitGenerate ==
    /\ gpc' = "none"
    /\ gen_prompt' = ""
    /\ gen_calls' = <<>>
    /\ attempt' = 0
    /\ error_str' = <<>>
    /\ retry_e' = NoException
    /\ sleeps' = 0
    /\ gresult' = NoResult
    /\ generated' = generated

InGenerate == pc \in {"sync_gen", "bg_gen"}

\* Lines 188-197: the call with the original prompt and what follows it.
GenOriginal ==
    /\ InGenerate
    /\ UNCHANGED authVars
    /\ gpc = "Initial"
    /\ LET call == GenCall(i, gen_prompt, <<>>)
       IN  /\ gen_calls' = Append(gen_calls, call)
           /\ generated' = generated \cup {i}
           /\ \/ /\ gresult' = Returned(call)
                 /\ gpc' = "Returned"
                 /\ error_str' = error_str
              \/ \E text \in GenErrors :
                   /\ error_str' = text
                   /\ IF IsRecitation(text) /\ max_retries > 0
                      THEN /\ gpc' = "Escalating"
                           /\ gresult' = gresult
                      ELSE /\ gpc' = "Raised"
                           /\ gresult' = Raised(PlainException(text))
    /\ UNCHANGED <<pc, reqVars, genai_key, api_files, filenames,
                   temp_file_paths, disk, i, html_results, file_uris, response,
                   task_scheduled, logged, upload_calls, list_calls, undetected,
                   gen_prompt, attempt, sleeps, retry_e>>

\* Lines 198-243: one escalation attempt.
GenAttempt ==
    /\ InGenerate
    /\ UNCHANGED authVars
    /\ gpc = "Escalating"
    /\ LET call == GenCall(i, alternative_prompt(attempt),
                           <<Temperature(attempt)>>)
       IN  /\ gen_calls' = Append(gen_calls, call)
           /\ generated' = generated \cup {i}
           /\ \/ /\ gresult' = Returned(call)
                 /\ gpc' = "Returned"
                 /\ UNCHANGED <<retry_e, sleeps>>
              \/ \E text \in GenErrors :
                   /\ retry_e' = PlainException(text)
                   /\ IF attempt = max_retries - 1
                      THEN /\ gpc' = "Raised"
                           /\ gresult' = Raised(ContentFlagged(error_str))
                           /\ sleeps' = sleeps
                      ELSE /\ gpc' = "Sleeping"
                           /\ gresult' = gresult
                           /\ sleeps' = sleeps + 1
    /\ UNCHANGED <<pc, reqVars, genai_key, api_files, filenames,
                   temp_file_paths, disk, i, html_results, file_uris, response,
                   task_scheduled, logged, upload_calls, list_calls, undetected,
                   gen_prompt, attempt, error_str>>

\* asyncio.sleep(1) is over and the handler of retry_e ends, which unbinds
\* retry_e: the next turn of `for attempt in range(...)`,
\* or, when the range is used up, `raise e` (line 246).
GenWake ==
    /\ InGenerate
    /\ UNCHANGED authVars
    /\ gpc = "Sleeping"
    /\ attempt' = attempt + 1
    /\ retry_e' = NoException
    /\ IF attempt + 1 < max_retries
       THEN /\ gpc' = "Escalating"
            /\ gresult' = gresult
       ELSE /\ gpc' = "Raised"
            /\ gresult' = Raised(PlainException(error_str))
    /\ UNCHANGED <<pc, reqVars, genai_key, api_files, filenames,
                   temp_file_paths, disk, i, html_results, file_uris, response,
                   task_scheduled, logged, upload_calls, list_calls, undetected,
                   gen_prompt, gen_calls, generated, error_str, sleeps>>

\* ------------------------------------------- convert_files, synchronous
UploadCall(name, mime, path, ok) ==
    [display_name |-> name, mime_type |-> mime, path |-> path, ok |-> ok,
     key |-> genai_key]

\* genai.upload_file: the call is logged, with the api key genai.configure
\* last set (upload_file takes no credential: it uses the process-wide
\* client); when it succeeds the file is in the external File API.
DoUpload(name, mime, path, ok) ==
    /\ upload_calls' = Append(upload_calls, UploadCall(name, mime, path, ok))
    /\ api_files' = IF ok
                    THEN api_files \cup
                         {StoredFile(name, mime, Len(upload_calls) + 1)}
                    ELSE api_files

\* Lines 384-393: an HTTPException is re-raised, any other exception becomes
\* a 500; the finally clause removes the document's temporary PDF.
SyncRaise(e) ==
    IF e.cls = "HTTPException"
    THEN e
    ELSE HTTPException(500, <<"Error processing ">> \o filenames[i]
                            \o <<": ">> \o StrOf(e))

SyncFail(e) ==
    /\ response' = ErrorResponse(SyncRaise(e))
    /\ disk' = disk \ {temp_file_paths[i]}
    /\ pc' = "done"

\* Lines 347-360: upload the PDF and call generate_with_retry.
SyncUpload ==
    /\ pc = "sync_upload"
    /\ UNCHANGED authVars
    /\ \E ok \in BOOLEAN :
         /\ DoUpload(filenames[i], "application/pdf", temp_file_paths[i], ok)
         /\ IF ok
            THEN /\ EnterGenerate(effective_prompt(prompt))
                 /\ pc' = "sync_gen"
                 /\ UNCHANGED <<response, disk>>
            ELSE /\ SyncFail(PlainException(UploadError))
                 /\ UNCHANGED genVars
    /\ UNCHANGED <<reqVars, genai_key, filenames, temp_file_paths, i,
                   html_results, file_uris, task_scheduled, logged,
                   list_calls, undetected>>

\* Lines 361-370: response.text, html_results and the HTML temporary file.
SyncGenerated ==
    /\ pc = "sync_gen"
    /\ UNCHANGED authVars
    /\ gpc = "Returned"
    /\ \E text_ok \in BOOLEAN :
         IF text_ok
         THEN /\ html_results' = IF return_html
                                 THEN Append(html_results, gresult.value)
                                 ELSE html_results
              /\ disk' = disk \cup {HtmlTemp(i)}
              /\ pc' = "sync_html_upload"
              /\ response' = response
         ELSE /\ SyncFail(PlainException(<<"response.text", "unavailable">>))
              /\ html_results' = html_results
    /\ ExitGenerate
    /\ UNCHANGED <<reqVars, genai_key, api_files, filenames, temp_file_paths,
                   i, file_uris, task_scheduled, logged, upload_calls,
                   list_calls, undetected>>

\* generate_with_retry raised.
SyncGenRaised ==
    /\ pc = "sync_gen"
    /\ UNCHANGED authVars
    /\ gpc = "Raised"
    /\ SyncFail(gresult.exc)
    /\ UNCHANGED <<reqVars, genai_key, api_files, filenames, temp_file_paths,
                   i, html_results, file_uris, task_scheduled, logged,
                   upload_calls, list_calls, undetected, genVars>>

SyncSuccess(uris) ==
    [NoResponse EXCEPT !.status_code = 200,
                       !.message = "Files processed successfully.",
                       !.filenames = filenames,
                       !.has_html = return_html,
                       !.html = IF return_html THEN html_results ELSE <<>>,
                       !.has_file_uris = TRUE,
                       !.file_uris = uris]

\* Lines 372-400: upload the HTML, keep its URI, remove both temporary
\* files, and go to the next document or answer.
SyncUploadHtml ==
    /\ pc = "sync_html_upload"
    /\ UNCHANGED authVars
    /\ \E ok \in BOOLEAN :
         /\ DoUpload(html_filename(filenames[i]), "text/html", HtmlTemp(i), ok)
         /\ IF ok
            THEN /\ file_uris' = Append(file_uris, Len(upload_calls) + 1)
                 /\ disk' = (disk \ {HtmlTemp(i)}) \ {temp_file_paths[i]}
                 /\ IF i = Len(temp_file_paths)
                    THEN /\ response' = SyncSuccess(file_uris')
                         /\ pc' = "done"
                         /\ i' = i
                    ELSE /\ response' = response
                         /\ pc' = "sync_upload"
                         /\ i' = i + 1
            ELSE /\ SyncFail(PlainException(UploadError))
                 /\ UNCHANGED <<file_uris, i>>
    /\ UNCHANGED <<reqVars, genai_key, filenames, temp_file_paths,
                   html_results, task_scheduled, logged, list_calls,
                   undetected, genVars>>

\* ------------------------------------------------ process_pdf_from_paths
\* The scheduled task starts, after the response was sent (lines 421-428).
BgStart ==
    /\ pc = "bg_scheduled"
    /\ UNCHANGED authVars
    /\ task_scheduled
    /\ task_scheduled' = FALSE
    /\ genai_key' = api_key
    /\ i' = 1
    /\ pc' = "bg_upload"
    /\ UNCHANGED <<reqVars, api_files, filenames, temp_file_paths, disk,
                   html_results, file_uris, response, logged, upload_calls,
                   list_calls, undetected, genVars>>

\* The end of one turn of the loop: the finally clause removes the
\* document's temporary PDF, then the next document or the end of the task.
BgNext ==
    /\ disk' = disk \ {temp_file_paths[i]}
    /\ IF i = Len(temp_file_paths)
       THEN /\ pc' = "bg_done"
            /\ i' = i
       ELSE /\ pc' = "bg_upload"
            /\ i' = i + 1

\* A task that gives up at the first document that fails.
BgFail_stops_task(e) ==
    /\ logged' = Append(logged, filenames[i])
    /\ disk' = disk \ {temp_file_paths[i]}
    /\ pc' = "bg_done"
    /\ i' = i

\* Lines 462-469: the exception is printed (the entry names the document;
\* the error's text is left out) and the loop goes on.
BgFail(e) ==
    /\ logged' = Append(logged, filenames[i])
    /\ BgNext

\* Lines 430-443.
BgUpload ==
    /\ pc = "bg_upload"
    /\ UNCHANGED authVars
    /\ \E ok \in BOOLEAN :
         /\ DoUpload(filenames[i], "application/pdf", temp_file_paths[i], ok)
         /\ IF ok
            THEN /\ EnterGenerate(effective_prompt(prompt))
                 /\ pc' = "bg_gen"
                 /\ UNCHANGED <<logged, disk, i>>
            ELSE /\ BgFail(PlainException(UploadError))
                 /\ UNCHANGED genVars
    /\ UNCHANGED <<reqVars, genai_key, filenames, temp_file_paths,
                   html_results, file_uris, response, task_scheduled,
                   list_calls, undetected>>

\* Lines 444-450.
BgGenerated ==
    /\ pc = "bg_gen"
    /\ UNCHANGED authVars
    /\ gpc = "Returned"
    /\ \E text_ok \in BOOLEAN :
         IF text_ok
         THEN /\ disk' = disk \cup {HtmlTemp(i)}
              /\ pc' = "bg_html_upload"
              /\ UNCHANGED <<logged, i>>
         ELSE BgFail(PlainException(<<"response.text", "unavailable">>))
    /\ ExitGenerate
    /\ UNCHANGED <<reqVars, genai_key, api_files, filenames, temp_file_paths,
                   html_results, file_uris, response, task_scheduled,
                   upload_calls, list_calls, undetected>>

\* generate_with_retry raised inside the task.
BgGenRaised ==
    /\ pc = "bg_gen"
    /\ UNCHANGED authVars
    /\ gpc = "Raised"
    /\ BgFail(gresult.exc)
    /\ ExitGenerate
    /\ UNCHANGED <<reqVars, genai_key, api_files, filenames, temp_file_paths,
                   html_results, file_uris, response, task_scheduled,
                   upload_calls, list_calls, undetected>>

\* Lines 452-469.
BgUploadHtml ==
    /\ pc = "bg_html_upload"
    /\ UNCHANGED authVars
    /\ \E ok \in BOOLEAN :
         /\ DoUpload(html_filename(filenames[i]), "text/html", HtmlTemp(i), ok)
         /\ IF ok
            THEN /\ disk' = (disk \ {HtmlTemp(i)}) \ {temp_file_paths[i]}
                 /\ logged' = logged
                 /\ IF i = Len(temp_file_paths)
                    THEN /\ pc' = "bg_done"
                         /\ i' = i
                    ELSE /\ pc' = "bg_upload"
                         /\ i' = i + 1
            ELSE BgFail(PlainException(UploadError))
    /\ UNCHANGED <<reqVars, genai_key, filenames, temp_file_paths,
                   html_results, file_uris, response, task_scheduled,
                   list_calls, undetected, genVars>>

\* ------------------------------------------------- /token and /list_files/
convertVars == <<pc, reqVars, api_files, filenames, temp_file_paths, disk, i,
                 html_results, file_uris, response, task_scheduled, logged,
                 upload_calls, list_calls, undetected, genVars>>

\* The clock advances; the request in hand is over.
Tick ==
    /\ now < MaxClock
    /\ now' = now + 1
    /\ op' = NoOp
    /\ UNCHANGED <<tok, genai_key, convertVars>>

\* POST /token (lines 90-113): the key is configured process-wide, the
\* probe genai.list_models() raises or not, and a token is made.
get_access_token ==
    /\ \E key \in TokenKeyInputs, probe_ok \in BOOLEAN :
         /\ genai_key' = key
         /\ tok' = IF probe_ok
                   THEN [api_key |-> key, at |-> now, status_code |-> 200,
                         detail |-> "",
                         access_token |->
                             create_access_token(Claims(TRUE, key, 0),
                                 ACCESS_TOKEN_EXPIRE_MINUTES, now),
                         token_type |-> "bearer"]
                   ELSE [NoTok EXCEPT !.api_key = key, !.at = now,
                                      !.status_code = 401,
                                      !.detail = "Invalid API key"]
    /\ op' = NoOp
    /\ UNCHANGED <<now, convertVars>>

\* The tokens a caller may present: the one POST /token returned, that
\* token with another subject written into it, and tokens made without the
\* server: signed with another secret, no JWT at all, signed by the server's
\* secret but without "sub".
PresentedTokens ==
    (IF tok.status_code = 200
     THEN {tok.access_token,
           [tok.access_token EXCEPT !.claims.sub = "key of someone else"]}
     ELSE {}) \cup
    { jwt_encode(Claims(TRUE, "key1", now + ACCESS_TOKEN_EXPIRE_MINUTES),
                 "another secret"),
      MalformedToken,
      jwt_encode(Claims(FALSE, "", now + ACCESS_TOKEN_EXPIRE_MINUTES),
                 SECRET_KEY) }

\* GET /list_files/ (lines 552-594) behind Depends(get_current_api_key):
\* when the dependency raises, the handler does not run.
list_files ==
    /\ \E token \in PresentedTokens, call_ok \in BOOLEAN :
         LET auth == get_current_api_key(token, now)
         IN  IF ~auth.ok
             THEN /\ op' = [NoOp EXCEPT !.token = token, !.at = now,
                                        !.status_code = auth.exc.status_code,
                                        !.detail = auth.exc.detail,
                                        !.headers = auth.exc.headers]
                  /\ genai_key' = genai_key
             ELSE /\ genai_key' = auth.api_key
                  /\ op' = [NoOp EXCEPT
                              !.token = token, !.at = now,
                              !.api_key = auth.api_key,
                              !.calls = <<[op |-> "list_files",
                                           key |-> auth.api_key]>>,
                              !.status_code = IF call_ok THEN 200 ELSE 500,
                              !.detail = IF call_ok THEN ""
                                         ELSE "Error listing files"]
    /\ UNCHANGED <<now, tok, convertVars>>

Next ==
    \/ ConvertBegin
    \/ Preflight
    \/ Dispatch
    \/ GenOriginal
    \/ GenAttempt
    \/ GenWake
    \/ SyncUpload
    \/ SyncGenerated
    \/ SyncGenRaised
    \/ SyncUploadHtml
    \/ BgStart
    \/ BgUpload
    \/ BgGenerated
    \/ BgGenRaised
    \/ BgUploadHtml

Spec == Init /\ [][Next]_vars

\* The token issuer and a protected operation, with the clock.
NextAuth ==
    \/ Tick
    \/ get_access_token
    \/ list_files

SpecAuth == Init /\ [][NextAuth]_vars

\* The coroutine of the /convert/ request or of its task is suspended: at
\* `await file.read()`, at `await asyncio.sleep(1)`, or between the answer
\* and the start of the scheduled task.  Only then can the event loop run
\* another handler.
Suspended ==
    \/ pc = "preflight" /\ i > 1
    \/ pc = "dispatch"
    \/ pc = "bg_scheduled"
    \/ gpc = "Sleeping"

\* A /convert/ request with POST /token calls served while it is suspended.
NextConc ==
    \/ Next
    \/ (Suspended /\ get_access_token)

SpecConc == Init /\ [][NextConc]_vars

\* ------------------------------------------------------------------ claims
\* Error texts that carry the recitation signature, and texts that do not.
RecitationTexts == { <<"RECITATION">>, <<"finish_reason", "4">> }
OtherTexts == { <<"finish_reason", "3">>, <<"504", "deadline", "4">> }

\* The fixed alternative instructions and temperatures of attempts 1, 2, 3.
FixedInstructions ==
    << "ALT1: reformat and restructure, omit images",
       "ALT2: extract and summarize, no exact text",
       "ALT3: rephrase and restructure, avoid direct reproduction" >>
FixedTemperatures == <<4, 6, 8>>

\* C1: when the original call and every escalation attempt of one
\* generate_with_retry invocation fail, exactly 4 generation calls were made
\* (no invocation ever makes a 5th) and the invocation ends by raising the
\* HTTP 422 ContentFlagged error whose detail carries the text of the
\* original error; in synchronous mode the caller receives that 422 error
\* unchanged, not a 500.
C1_ExhaustedAfterFourCalls ==
    /\ Len(gen_calls) <= 4
    /\ (gpc = "Raised" /\ error_str \in RecitationTexts) =>
          /\ Len(gen_calls) = 4
          /\ gresult.kind = "raised"
          /\ gresult.exc.cls = "HTTPException"
          /\ gresult.exc.status_code = 422
          /\ gresult.exc.detail =
                <<"Content flagged as potentially copyrighted.",
                  "Original error: ">> \o error_str
    /\ (pc = "done" /\ gpc = "Raised" /\ error_str \in RecitationTexts) =>
          /\ response.status_code = 422
          /\ response.detail = gresult.exc.detail

\* C1 witness: a synchronous request ended with 422 after four failed calls.
C1_Witness ==
    /\ pc = "done"
    /\ gpc = "Raised"
    /\ Len(gen_calls) = 4
    /\ error_str = <<"RECITATION">>
    /\ retry_e.detail \in RecitationTexts
    /\ response.status_code = 422

\* C2: the first call of an invocation carries the caller's instruction and
\* no temperature; call k+1 (escalation attempt k = 1, 2, 3) carries the k-th
\* fixed alternative instruction, never the caller's, and temperature 0.4,
\* 0.6, 0.8; escalation follows a recitation refusal of the original call
\* only; the invocation returns the result of the last call it made (the
\* first one that succeeded); a result returned after 4 calls is the one of
\* attempt 3, made with the third instruction and temperature 0.8.
C2_EscalationSequence ==
    /\ \A k \in 1..Len(gen_calls) :
          IF k = 1
          THEN gen_calls[k] = GenCall(i, gen_prompt, <<>>)
          ELSE /\ k - 1 <= 3
               /\ gen_calls[k] = GenCall(i, FixedInstructions[k - 1],
                                         <<FixedTemperatures[k - 1]>>)
               /\ gen_calls[k].prompt # gen_prompt
               /\ error_str \in RecitationTexts
    /\ gpc = "Returned" =>
          /\ gen_calls # <<>>
          /\ gresult = Returned(gen_calls[Len(gen_calls)])
    /\ (gpc = "Returned" /\ Len(gen_calls) = 4) =>
          /\ gresult.value.prompt = FixedInstructions[3]
          /\ gresult.value.generation_config = <<8>>
          /\ sleeps = 2

\* C2 witness: the original call and attempts 1 and 2 failed, attempt 3
\* succeeded.
C2_Witness ==
    /\ gpc = "Returned"
    /\ Len(gen_calls) = 4
    /\ gen_prompt = "custom prompt"
    /\ error_str \in RecitationTexts

\* C3: when the original call fails with an error that does not carry the
\* recitation signature, the invocation has made exactly one generation
\* call, has not waited, and raises that very error.
C3_OtherErrorNoRetry ==
    error_str \in OtherTexts =>
        /\ gpc = "Raised"
        /\ Len(gen_calls) = 1
        /\ sleeps = 0
        /\ gresult = Raised(PlainException(error_str))

\* C3 witness: the original call failed with "finish_reason 3".
C3_Witness ==
    /\ gpc = "Raised"
    /\ error_str = <<"finish_reason", "3">>
    /\ Len(gen_calls) = 1

\* C4 (as claimed): a failure without the recitation signature raised by an
\* escalation attempt ends the invocation at once with that very failure:
\* no wait, no further call, no ContentFlagged.
C4_OtherErrorPropagatesFromAttempt ==
    (retry_e.cls = "Exception" /\ retry_e.detail \in OtherTexts) =>
        /\ gpc = "Raised"
        /\ gresult = Raised(retry_e)

\* The display names of the submitted documents, in submission order.
Submitted == [k \in 1..Len(files) |-> shorten_filename(files[k], 40)]

\* The display names the File API held before the request.
ExistingNames == {f.display_name : f \in {g \in api_files : g.uri = 0}}

IsPdfUpload(c) == c.mime_type = "application/pdf"
PdfUploads == SelectSeq(upload_calls, IsPdfUpload)

\* C5 (as claimed): when two documents of one request have the same
\* display name, no upload call is made for the request.
C5_DuplicateInRequestNoUpload ==
    (\E j, k \in 1..Len(files) : j # k /\ Submitted[j] = Submitted[k]) =>
        upload_calls = <<>>

PreflightRejected ==
    /\ pc = "done"
    /\ files # <<>>
    /\ Len(temp_file_paths) < Len(files)

\* C7 (as claimed): a request rejected for a display-name collision is
\* answered with status 400, never 500.
C7_CollisionAnswered400 ==
    PreflightRejected => response.status_code = 400

\* C8 (as claimed): no temporary file of a document exists when the next
\* document begins, and none is left when the request or the task ends.
C8_NoTempFileRemains ==
    /\ pc \in {"done", "bg_done"} => disk = {}
    /\ pc \in {"sync_upload", "bg_upload"} =>
          \A k \in 1..(i - 1) : PdfTemp(k) \notin disk /\ HtmlTemp(k) \notin disk

\* C9: a /convert/ answer that is not a success carries no html and no
\* file_uris.  In synchronous mode the PDFs are uploaded in submission
\* order; an upload call that fails is the last call of the request; when
\* the request fails at document i, exactly the documents 1..i were
\* uploaded and no later one was generated.  Every file an upload call
\* stored is still in the File API.  A successful answer names the
\* submitted documents and holds one URI per document, in submission order,
\* each the URI of the stored HTML file of that document.
C9_SyncAllOrNothing ==
    /\ (pc = "done" /\ response.status_code # 200) =>
          /\ ~response.has_html
          /\ response.html = <<>>
          /\ ~response.has_file_uris
          /\ response.file_uris = <<>>
    /\ ~background =>
          /\ Len(PdfUploads) <= Len(files)
          /\ \A k \in 1..Len(PdfUploads) :
                /\ PdfUploads[k].path = PdfTemp(k)
                /\ PdfUploads[k].display_name = Submitted[k]
          /\ generated \subseteq 1..Len(PdfUploads)
          /\ \A k \in 1..(Len(upload_calls) - 1) : upload_calls[k].ok
    /\ (pc = "done" /\ ~background /\ response.status_code # 200
          /\ upload_calls # <<>>) =>
          /\ Len(PdfUploads) = i
          /\ generated \subseteq 1..i
    /\ \A k \in 1..Len(upload_calls) :
          upload_calls[k].ok =>
              StoredFile(upload_calls[k].display_name,
                         upload_calls[k].mime_type, k) \in api_files
    /\ (pc = "done" /\ response.status_code = 200) =>
          /\ ~background
          /\ response.filenames = Submitted
          /\ response.has_file_uris
          /\ Len(response.file_uris) = Len(files)
          /\ \A k \in 1..Len(files) :
                StoredFile(html_filename(Submitted[k]), "text/html",
                           response.file_uris[k]) \in api_files
          /\ \A j, k \in 1..Len(files) :
                j < k => response.file_uris[j] < response.file_uris[k]
          /\ response.has_html = return_html
          /\ Len(response.html) = IF return_html THEN Len(files) ELSE 0

\* C9 witness: a synchronous request of two documents failed at the second
\* one, after the first was converted and its HTML stored.
C9_Witness ==
    /\ pc = "done"
    /\ ~background
    /\ i = 2
    /\ response.status_code >= 400
    /\ Len(file_uris) = 1
    /\ Len(html_results) = 1
    /\ \E f \in api_files : f.uri = file_uris[1]

\* C10: a background request that passed pre-flight is answered with
\* status 200 and the display names of its documents in submission order
\* before any upload or generation call is made, and that answer never
\* changes afterwards, whatever fails in the task; the task uploads the
\* documents in submission order, and when it has ended each of the N
\* documents has been uploaded exactly once.
C10_BackgroundAckThenAll ==
    /\ pc = "bg_scheduled" =>
          /\ upload_calls = <<>>
          /\ generated = {}
    /\ pc \in {"bg_scheduled", "bg_upload", "bg_gen", "bg_html_upload",
               "bg_done"} =>
          /\ background
          /\ response.status_code = 200
          /\ response.detail = <<>>
          /\ response.filenames = Submitted
          /\ Len(response.filenames) = Len(files)
    /\ background =>
          /\ Len(PdfUploads) <= Len(files)
          /\ \A k \in 1..Len(PdfUploads) :
                /\ PdfUploads[k].path = PdfTemp(k)
                /\ PdfUploads[k].display_name = Submitted[k]
          /\ generated \subseteq 1..Len(PdfUploads)
    /\ pc = "bg_done" => Len(PdfUploads) = Len(files)

\* C10 witness: the task ended after the first of two documents failed and
\* the second was converted.
C10_Witness ==
    /\ pc = "bg_done"
    /\ Len(files) = 2
    /\ logged = <<Submitted[1]>>
    /\ Len(PdfUploads) = 2
    /\ generated = {2}
    /\ response.status_code = 200

\* C11 (as claimed): under any interleaving at the suspension points, every
\* genai.upload_file call made for the /convert/ request (its PDFs and its
\* generated HTML files) is made with the credential of the request's own
\* token, never with one a POST /token call configured meanwhile.
C11_UploadsUseOwnCredential ==
    \A k \in 1..Len(upload_calls) : upload_calls[k].key = api_key

\* C12: when POST /token accepted a credential, get_current_api_key applied
\* to the returned token at the time of issue yields exactly that
\* credential, a protected request made with the token at that time runs
\* with that credential, and the token's exp is the time of issue plus 30
\* minutes.
C12_TokenRoundTrip ==
    /\ tok.status_code = 200 =>
          /\ get_current_api_key(tok.access_token, tok.at).ok
          /\ get_current_api_key(tok.access_token, tok.at).api_key
                = tok.api_key
          /\ tok.access_token.claims.exp = tok.at + 30
          /\ tok.token_type = "bearer"
    /\ (tok.status_code = 200 /\ op.status_code # 0
          /\ op.token = tok.access_token /\ op.at = tok.at) =>
          /\ op.status_code # 401
          /\ op.api_key = tok.api_key
          /\ \A k \in 1..Len(op.calls) : op.calls[k].key = tok.api_key

\* C12 witness: a token issued for key2 after the clock moved, and used at
\* once for a protected request that listed the files.
C12_Witness ==
    /\ tok.status_code = 200
    /\ tok.api_key = "key2"
    /\ tok.at > 0
    /\ op.token = tok.access_token
    /\ op.at = tok.at
    /\ op.status_code = 200
    /\ op.api_key = "key2"

\* The token is one the claim calls valid at time t: it parses, its
\* signature verifies under the server's secret, it has a subject, and
\* t is before its exp.
ValidBefore(token, t) ==
    /\ token.wellformed
    /\ token.sig = Sign(token.claims, SECRET_KEY)
    /\ token.claims.has_sub
    /\ t < token.claims.exp

\* The uniform answer of a failed verification, with no external call.
Unauthenticated ==
    /\ op.status_code = 401
    /\ op.detail = "Could not validate credentials"
    /\ op.headers = <<"WWW-Authenticate", "Bearer">>
    /\ op.api_key = ""
    /\ op.calls = <<>>

\* C13 (as claimed): a protected request gets a credential only when its
\* token is valid with now < exp, and its credential is then the token's
\* subject; every other token is answered with the same 401 and no
\* external API call is made for the request.
C13_OnlyValidBeforeExpiry ==
    op.status_code # 0 =>
        IF ValidBefore(op.token, op.at)
        THEN /\ op.status_code # 401
             /\ op.api_key = op.token.claims.sub
        ELSE Unauthenticated

\* The part of C13 that holds, with "not after exp" in the place of
\* "before exp": a token that is malformed, signed with another secret,
\* altered, without subject, or presented after its exp is answered with
\* the same 401 and no external call; any other token yields its subject.
C13_OnlyValidUntilExpiry ==
    op.status_code # 0 =>
        IF ValidBefore(op.token, op.at) \/
           (ValidBefore(op.token, op.at - 1) /\ op.token.claims.exp = op.at)
        THEN /\ op.status_code # 401
             /\ op.api_key = op.token.claims.sub
        ELSE Unauthenticated
====
